---- MODULE Spec2Model ----
(***************************************************************************)
(* A model of the gemini package (server.go, client.go, gemini.go and the  *)
(* request code of unnamed/part_000).                                      *)
(*                                                                         *)
(* Go strings and byte slices are sequences of one-character strings, so   *)
(* that parsing, splitting and formatting are computed character by        *)
(* character as the code and the Go library compute them.                  *)
(***************************************************************************)
EXTENDS Integers, Sequences, FiniteSets, TLC

(***************************************************************************)
(* Bounds of the model.                                                    *)
(***************************************************************************)
\* longest list of ';' segments appended to a path in a Reset input
MaxSegs == 2
\* most calls a handler makes on its ResponseWriter
MaxCalls == 3
\* length of the delimiter-free stream fed to readHeader
LongLen == 1030
\* number of connections that arrive at the listener
MaxConns == 2

(***************************************************************************)
(* Characters and strings.                                                 *)
(***************************************************************************)
LowerLetters == <<"a","b","c","d","e","f","g","h","i","j","k","l","m",
                  "n","o","p","q","r","s","t","u","v","w","x","y","z">>
UpperLetters == <<"A","B","C","D","E","F","G","H","I","J","K","L","M",
                  "N","O","P","Q","R","S","T","U","V","W","X","Y","Z">>
Digits == <<"0","1","2","3","4","5","6","7","8","9">>

\* printable ASCII, code 32 (space) to 126 (~), in code order; the backquote
\* (code 96) is written "\\x96"
Ascii == <<" ","!","\"","#","$","%","&","'","(",")","*","+",",","-",".","/">>
         \o Digits \o <<":",";","<","=",">","?","@">>
         \o UpperLetters \o <<"[","\\","]","^","_","\\x96">>
         \o LowerLetters \o <<"{","|","}","~">>

Range(s) == {s[i] : i \in 1..Len(s)}

IsLetter(c) == c \in Range(LowerLetters) \cup Range(UpperLetters)
IsDigit(c) == c \in Range(Digits)

\* the byte with the given code, as a character
Chr(code) ==
    IF code \in 32..126 THEN Ascii[code - 31]
    ELSE IF code = 13 THEN "\r"
    ELSE IF code = 10 THEN "\n"
    ELSE "\\x" \o ToString(code)

\* bytes below 0x20 and 0x7f
IsCTL(c) == c \in {Chr(n) : n \in (0..31) \cup {127}}

CRLF == <<"\r","\n">>

\* strings.HasPrefix, strings.HasSuffix, strings.Count (of one byte)
HasPrefix(s, p) == Len(s) >= Len(p) /\ SubSeq(s, 1, Len(p)) = p
HasSuffix(s, p) == Len(s) >= Len(p) /\ SubSeq(s, Len(s) - Len(p) + 1, Len(s)) = p
Count(s, c) == Cardinality({i \in 1..Len(s) : s[i] = c})

SetMin(S) == CHOOSE x \in S : \A y \in S : x <= y
SetMax(S) == CHOOSE x \in S : \A y \in S : y <= x

\* strings.IndexByte and strings.LastIndexByte, 1-based, 0 when absent
Index(s, c) ==
    LET I == {i \in 1..Len(s) : s[i] = c} IN IF I = {} THEN 0 ELSE SetMin(I)
LastIndex(s, c) ==
    LET I == {i \in 1..Len(s) : s[i] = c} IN IF I = {} THEN 0 ELSE SetMax(I)

\* index of the '\r' of the first CRLF of s, 0 when s has none
FirstCRLF(s) ==
    LET I == {i \in 1..(Len(s) - 1) : s[i] = "\r" /\ s[i+1] = "\n"}
    IN  IF I = {} THEN 0 ELSE SetMin(I)

\* strings.Split(s, sep) for a one-byte separator: always at least one part
RECURSIVE Split(_, _)
Split(s, c) ==
    LET i == Index(s, c) IN
    IF i = 0 THEN <<s>>
    ELSE <<SubSeq(s, 1, i - 1)>> \o Split(SubSeq(s, i + 1, Len(s)), c)

\* strings.ToLower on ASCII
ToLowerChar(c) ==
    IF c \in Range(UpperLetters)
    THEN LowerLetters[CHOOSE i \in 1..26 : UpperLetters[i] = c]
    ELSE c
ToLower(s) == [i \in 1..Len(s) |-> ToLowerChar(s[i])]

RECURSIVE Concat(_)
Concat(ss) == IF ss = <<>> THEN <<>> ELSE Head(ss) \o Concat(Tail(ss))

(***************************************************************************)
(* Go library functions the package calls.                                 *)
(***************************************************************************)
\* net/url ishex, unhex
IsHex(c) == IsDigit(c) \/ ToLowerChar(c) \in {"a","b","c","d","e","f"}
HexVal(c) ==
    IF IsDigit(c) THEN (CHOOSE i \in 1..10 : Digits[i] = c) - 1
    ELSE (CHOOSE i \in 1..6 : LowerLetters[i] = ToLowerChar(c)) + 9

\* net/url unescape, first pass: every '%' is followed by two hex digits
ValidEscapes(s) ==
    \A i \in 1..Len(s) :
        s[i] = "%" => i + 2 <= Len(s) /\ IsHex(s[i+1]) /\ IsHex(s[i+2])

\* net/url unescape, second pass; plus says whether '+' decodes to a space
RECURSIVE UnescapeFrom(_, _, _)
UnescapeFrom(s, i, plus) ==
    IF i > Len(s) THEN <<>>
    ELSE IF s[i] = "%"
         THEN <<Chr(16 * HexVal(s[i+1]) + HexVal(s[i+2]))>> \o UnescapeFrom(s, i + 3, plus)
    ELSE IF s[i] = "+" /\ plus THEN <<" ">> \o UnescapeFrom(s, i + 1, plus)
    ELSE <<s[i]>> \o UnescapeFrom(s, i + 1, plus)

\* url.QueryUnescape
QueryUnescape(s) ==
    IF ValidEscapes(s) THEN [ok |-> TRUE, out |-> UnescapeFrom(s, 1, TRUE)]
    ELSE [ok |-> FALSE, out |-> <<>>]

\* strconv.ParseInt(val, 10, 64): an optional sign and at least one digit.
\* On a syntax error it returns 0 and the error.  Values are far below the
\* 64-bit range for the digit strings of the model.
RECURSIVE DigitsValue(_)
DigitsValue(s) ==
    IF s = <<>> THEN 0
    ELSE 10 * DigitsValue(SubSeq(s, 1, Len(s) - 1))
         + (CHOOSE i \in 1..10 : Digits[i] = s[Len(s)]) - 1
ParseInt(val) ==
    LET signed == val # <<>> /\ val[1] \in {"+", "-"}
        body   == IF signed THEN Tail(val) ELSE val
        ok     == body # <<>> /\ \A i \in 1..Len(body) : IsDigit(body[i])
    IN  IF ~ok THEN [ok |-> FALSE, n |-> 0]
        ELSE [ok |-> TRUE,
              n  |-> IF signed /\ val[1] = "-" THEN 0 - DigitsValue(body)
                     ELSE DigitsValue(body)]

\* net/url getScheme: [err, scheme, rest]
getScheme(rawurl) ==
    LET Stop == {i \in 1..Len(rawurl) :
                    ~(IsLetter(rawurl[i])
                      \/ (i > 1 /\ (IsDigit(rawurl[i]) \/ rawurl[i] \in {"+", "-", "."})))}
    IN  IF Stop = {} THEN [err |-> FALSE, scheme |-> <<>>, rest |-> rawurl]
        ELSE LET i == SetMin(Stop) IN
             IF rawurl[i] # ":" THEN [err |-> FALSE, scheme |-> <<>>, rest |-> rawurl]
             ELSE IF i = 1 THEN [err |-> TRUE, scheme |-> <<>>, rest |-> <<>>]
             ELSE [err |-> FALSE, scheme |-> SubSeq(rawurl, 1, i - 1),
                   rest |-> SubSeq(rawurl, i + 1, Len(rawurl))]

\* net/url shouldEscape(c, encodeHost) for ASCII
HostCharOK(c) ==
    IsLetter(c) \/ IsDigit(c)
    \/ c \in {"-", "_", ".", "~", "!", "$", "&", "'", "(", ")", "*", "+", ",",
              ";", "=", ":", "[", "]", "<", ">", "\""}

\* net/url parseAuthority/parseHost for an authority without user
\* information, brackets or escapes: an optional port must be digits
ValidHost(authority) ==
    LET i == LastIndex(authority, ":") IN
    /\ \A k \in 1..Len(authority) : HostCharOK(authority[k])
    /\ i # 0 => \A k \in (i+1)..Len(authority) : IsDigit(authority[k])

NilURL == [nil |-> TRUE, Scheme |-> <<>>, Opaque |-> <<>>, Host |-> <<>>,
           Path |-> <<>>, RawQuery |-> <<>>]

\* net/url parse, the authority and the path: rest begins with '/'
parseHier(u0, rest) ==
    IF u0.Scheme # <<>> /\ HasPrefix(rest, <<"/","/">>)
    THEN LET s == Index(SubSeq(rest, 3, Len(rest)), "/")
             e == IF s = 0 THEN Len(rest) ELSE s + 1
         IN  IF ~ValidHost(SubSeq(rest, 3, e)) \/ ~ValidEscapes(SubSeq(rest, e + 1, Len(rest)))
             THEN [ok |-> FALSE, url |-> NilURL]
             ELSE [ok |-> TRUE,
                   url |-> [u0 EXCEPT !.Host = SubSeq(rest, 3, e),
                                      !.Path = UnescapeFrom(rest, e + 1, FALSE)]]
    ELSE IF ~ValidEscapes(rest) THEN [ok |-> FALSE, url |-> NilURL]
    ELSE [ok |-> TRUE, url |-> [u0 EXCEPT !.Path = UnescapeFrom(rest, 1, FALSE)]]

\* net/url parse after the query has been cut off: an opaque URL, an error
\* for a relative request URI, or authority and path
parseRest(u0, rest) ==
    IF HasPrefix(rest, <<"/">>) THEN parseHier(u0, rest)
    ELSE IF u0.Scheme # <<>> THEN [ok |-> TRUE, url |-> [u0 EXCEPT !.Opaque = rest]]
    ELSE [ok |-> FALSE, url |-> NilURL]

\* net/url parse after getScheme: the query is cut at the first '?'
parseQuery(scheme, rest, q) ==
    IF q = 0 \/ (q = Len(rest) /\ Count(rest, "?") = 1)
    THEN parseRest([NilURL EXCEPT !.nil = FALSE, !.Scheme = scheme],
                   IF q = 0 THEN rest ELSE SubSeq(rest, 1, q - 1))
    ELSE parseRest([NilURL EXCEPT !.nil = FALSE, !.Scheme = scheme,
                                  !.RawQuery = SubSeq(rest, q + 1, Len(rest))],
                   SubSeq(rest, 1, q - 1))

parseScheme(gs) ==
    IF gs.err THEN [ok |-> FALSE, url |-> NilURL]
    ELSE parseQuery(ToLower(gs.scheme), gs.rest, Index(gs.rest, "?"))

\* url.ParseRequestURI (net/url parse with viaRequest = true): [ok, url].
\* Exact for inputs without '@' and without '%' or '[' in the authority.
ParseRequestURI(rawurl) ==
    IF rawurl = <<>> \/ \E i \in 1..Len(rawurl) : IsCTL(rawurl[i])
    THEN [ok |-> FALSE, url |-> NilURL]
    ELSE IF rawurl = <<"*">>
    THEN [ok |-> TRUE, url |-> [NilURL EXCEPT !.nil = FALSE, !.Path = <<"*">>]]
    ELSE parseScheme(getScheme(rawurl))

\* net/url shouldEscape(c, encodePath) for ASCII
PathCharOK(c) ==
    IsLetter(c) \/ IsDigit(c)
    \/ c \in {"-", "_", ".", "~", "$", "&", "+", ",", "/", ":", ";", "=", "@"}

UpperHex == Digits \o <<"A","B","C","D","E","F">>

\* the code of an ASCII character of the model
CodeOf(c) ==
    IF c = "\r" THEN 13 ELSE IF c = "\n" THEN 10
    ELSE (CHOOSE i \in 1..Len(Ascii) : Ascii[i] = c) + 31

\* net/url escape(s, encodePath)
EscapeChar(c) ==
    IF PathCharOK(c) THEN <<c>>
    ELSE <<"%", UpperHex[(CodeOf(c) \div 16) + 1], UpperHex[(CodeOf(c) % 16) + 1]>>
EscapePath(s) == Concat([i \in 1..Len(s) |-> EscapeChar(s[i])])

\* the first segment of a path
FirstSegment(path) ==
    IF Index(path, "/") = 0 THEN path ELSE SubSeq(path, 1, Index(path, "/") - 1)

\* the authority part that URL.String writes; omit is the URL's OmitHost,
\* which parse sets (from Go 1.19 on) for "scheme:/path"
AuthorityString(u, omit) ==
    IF (u.Scheme # <<>> \/ u.Host # <<>>)
       /\ ~(omit /\ u.Host = <<>>)
       /\ (u.Host # <<>> \/ u.Path # <<>>)
    THEN <<"/","/">> \o u.Host
    ELSE <<>>

\* the path part that URL.String writes after the text so far
PathString(u, sofar) ==
    (IF u.Path # <<>> /\ u.Path[1] # "/" /\ u.Host # <<>> THEN <<"/">> ELSE <<>>)
    \o (IF sofar = <<>> /\ ":" \in Range(FirstSegment(EscapePath(u.Path)))
        THEN <<".","/">> ELSE <<>>)
    \o (IF u.Path = <<"*">> THEN u.Path ELSE EscapePath(u.Path))

SchemeString(u) == IF u.Scheme # <<>> THEN u.Scheme \o <<":">> ELSE <<>>
QueryString(u) == IF u.RawQuery # <<>> THEN <<"?">> \o u.RawQuery ELSE <<>>

\* (*url.URL).String, which fmt's %s calls.  Exact for a URL without user
\* information and fragment whose host needs no escaping and whose path
\* was given in the default encoding, as the URLs that ParseRequestURI
\* returns for the inputs of the model are.
URLString(u, omit) ==
    IF u.Opaque # <<>> THEN SchemeString(u) \o u.Opaque \o QueryString(u)
    ELSE SchemeString(u) \o AuthorityString(u, omit)
         \o PathString(u, SchemeString(u) \o AuthorityString(u, omit))
         \o QueryString(u)

\* net/url parse with viaRequest = false, the authority and the path: rest
\* begins with "//"
parseAuthorityAny(u0, rest) ==
    LET s == Index(SubSeq(rest, 3, Len(rest)), "/")
        e == IF s = 0 THEN Len(rest) ELSE s + 1
    IN  IF ~ValidHost(SubSeq(rest, 3, e)) \/ ~ValidEscapes(SubSeq(rest, e + 1, Len(rest)))
        THEN [ok |-> FALSE, url |-> NilURL]
        ELSE [ok |-> TRUE,
              url |-> [u0 EXCEPT !.Host = SubSeq(rest, 3, e),
                                 !.Path = UnescapeFrom(rest, e + 1, FALSE)]]

\* net/url parse with viaRequest = false after the query has been cut off:
\* an opaque URL, a relative path, or authority and path
parseRestAny(u0, rest) ==
    IF ~HasPrefix(rest, <<"/">>) /\ u0.Scheme # <<>>
    THEN [ok |-> TRUE, url |-> [u0 EXCEPT !.Opaque = rest]]
    ELSE IF ~HasPrefix(rest, <<"/">>) /\ ":" \in Range(FirstSegment(rest))
    THEN [ok |-> FALSE, url |-> NilURL]
    ELSE IF HasPrefix(rest, <<"/","/">>)
            /\ (u0.Scheme # <<>> \/ ~HasPrefix(rest, <<"/","/","/">>))
    THEN parseAuthorityAny(u0, rest)
    ELSE IF ~ValidEscapes(rest) THEN [ok |-> FALSE, url |-> NilURL]
    ELSE [ok |-> TRUE, url |-> [u0 EXCEPT !.Path = UnescapeFrom(rest, 1, FALSE)]]

parseQueryAny(scheme, rest, q) ==
    IF q = 0 \/ (q = Len(rest) /\ Count(rest, "?") = 1)
    THEN parseRestAny([NilURL EXCEPT !.nil = FALSE, !.Scheme = scheme],
                      IF q = 0 THEN rest ELSE SubSeq(rest, 1, q - 1))
    ELSE parseRestAny([NilURL EXCEPT !.nil = FALSE, !.Scheme = scheme,
                                     !.RawQuery = SubSeq(rest, q + 1, Len(rest))],
                      SubSeq(rest, 1, q - 1))

parseSchemeAny(gs) ==
    IF gs.err THEN [ok |-> FALSE, url |-> NilURL]
    ELSE parseQueryAny(ToLower(gs.scheme), gs.rest, Index(gs.rest, "?"))

\* url.Parse (net/url parse with viaRequest = false): [ok, url].  Exact for
\* inputs without '#', without '@' and without '%' or '[' in the authority.
Parse(rawurl) ==
    IF \E i \in 1..Len(rawurl) : IsCTL(rawurl[i])
    THEN [ok |-> FALSE, url |-> NilURL]
    ELSE IF rawurl = <<"*">>
    THEN [ok |-> TRUE, url |-> [NilURL EXCEPT !.nil = FALSE, !.Path = <<"*">>]]
    ELSE parseSchemeAny(getScheme(rawurl))

(***************************************************************************)
(* gemini.go: Request and Request.Reset.                                   *)
(***************************************************************************)
SchemaGemini == <<"g","e","m","i","n","i">>
SchemaTitan == <<"t","i","t","a","n">>

\* errors of Reset: kind and the text appended to the message
NoErr == [kind |-> "nil", val |-> <<>>]
ErrParse(rawurl) == [kind |-> "failed to parse request", val |-> rawurl]
ErrNoScheme(rawurl) == [kind |-> "request is missing scheme", val |-> rawurl]
ErrTitanParams == [kind |-> "titan parameters expected", val |-> <<>>]
ErrTitanSize(val) == [kind |-> "failed to parse titan size parameter", val |-> val]

\* the zero Request{}
ZeroRequest == [URL |-> NilURL,
                Titan |-> [Token |-> <<>>, Mime |-> <<>>, Size |-> 0]]

\* the body of the loop of resetTitanURL without the error return of
\* lines 306 to 308
titanPart_sizeUnchecked(r, kv) ==
    IF Len(kv) # 2 THEN [req |-> r, err |-> NoErr]
    ELSE IF kv[1] = <<"t","o","k","e","n">>
         THEN [req |-> [r EXCEPT !.Titan.Token = kv[2]], err |-> NoErr]
    ELSE IF kv[1] = <<"m","i","m","e">>
         THEN [req |-> [r EXCEPT !.Titan.Mime = kv[2]], err |-> NoErr]
    ELSE IF kv[1] = <<"s","i","z","e">>
         THEN [req |-> [r EXCEPT !.Titan.Size = ParseInt(kv[2]).n], err |-> NoErr]
    ELSE [req |-> r, err |-> NoErr]

\* the body of the loop of resetTitanURL for one segment split at '='
titanPart(r, kv) ==
    IF Len(kv) # 2 THEN [req |-> r, err |-> NoErr]
    ELSE IF kv[1] = <<"t","o","k","e","n">>
         THEN [req |-> [r EXCEPT !.Titan.Token = kv[2]], err |-> NoErr]
    ELSE IF kv[1] = <<"m","i","m","e">>
         THEN [req |-> [r EXCEPT !.Titan.Mime = kv[2]], err |-> NoErr]
    ELSE IF kv[1] = <<"s","i","z","e">>
         THEN [req |-> [r EXCEPT !.Titan.Size = ParseInt(kv[2]).n],
               err |-> IF ParseInt(kv[2]).ok THEN NoErr ELSE ErrTitanSize(kv[2])]
    ELSE [req |-> r, err |-> NoErr]

\* the loop of resetTitanURL over the parameter segments: s is the request
\* and error so far, i the next segment
RECURSIVE titanParts(_, _, _)
titanParts(s, parts, i) ==
    IF i > Len(parts) \/ s.err # NoErr THEN s
    ELSE titanParts(titanPart(s.req, Split(parts[i], "=")), parts, i + 1)

\* resetTitanURL without the check of line 287
resetTitanURL_noCheck(r) ==
    LET parts == Split(r.URL.Path, ";") IN
    titanParts([req |-> [r EXCEPT !.URL.Path = parts[1]], err |-> NoErr], Tail(parts), 1)

\* resetTitanURL without the assignment to r.URL.Path of line 290
resetTitanURL_keepsParams(r) ==
    LET parts == Split(r.URL.Path, ";") IN
    IF Len(parts) < 2 THEN [req |-> r, err |-> ErrTitanParams]
    ELSE titanParts([req |-> r, err |-> NoErr], Tail(parts), 1)

resetTitanURL(r) ==
    LET parts == Split(r.URL.Path, ";") IN
    IF Len(parts) < 2 THEN [req |-> r, err |-> ErrTitanParams]
    ELSE titanParts([req |-> [r EXCEPT !.URL.Path = parts[1]], err |-> NoErr],
                    Tail(parts), 1)

\* resetGeminiURL without the default of line 317
resetGeminiURL_noDefault(r) == r

resetGeminiURL(r) ==
    IF r.URL.Path = <<>> THEN [r EXCEPT !.URL.Path = <<"/">>] ELSE r

\* Reset without the assignments of lines 262 to 264
Reset_keepsTitan(r, rawurl) ==
    LET p  == ParseRequestURI(rawurl)
        r1 == [r EXCEPT !.URL = p.url]
    IN
    IF ~p.ok THEN [req |-> r1, err |-> ErrParse(rawurl)]
    ELSE IF r1.URL.Scheme = <<>> THEN [req |-> r1, err |-> ErrNoScheme(rawurl)]
    ELSE IF r1.URL.Scheme = SchemaTitan THEN resetTitanURL(r1)
    ELSE [req |-> resetGeminiURL(r1), err |-> NoErr]

\* Request.Reset: [req, err]; the request is modified also when it fails
Reset(r, rawurl) ==
    LET p  == ParseRequestURI(rawurl)
        r1 == [r EXCEPT !.Titan = [Token |-> <<>>, Mime |-> <<>>, Size |-> 0],
                        !.URL = p.url]
    IN
    IF ~p.ok THEN [req |-> r1, err |-> ErrParse(rawurl)]
    ELSE IF r1.URL.Scheme = <<>> THEN [req |-> r1, err |-> ErrNoScheme(rawurl)]
    ELSE IF r1.URL.Scheme = SchemaTitan THEN resetTitanURL(r1)
    ELSE [req |-> resetGeminiURL(r1), err |-> NoErr]

(***************************************************************************)
(* State.                                                                  *)
(***************************************************************************)
VARIABLES
    pc,        \* position of the worker, or of the caller of Reset
    request,   \* the Request: URL and Titan parameters
    rerr,      \* the error getRequest or Reset returned
    lastIn,    \* the request target the peer (or the caller of Reset) chose
    stream,    \* the bytes the peer sends on the connection
    pos,       \* index of the next byte of stream that Read delivers
    line,      \* readHeader's accumulated line
    header,    \* what readHeader returned: bytes, error, stream position
    w,         \* the response: headerWritten and err
    wire,      \* the bytes the connection accepted from the server
    calls,     \* the calls the handler made on the response, with results
    invoked,   \* whether handler.ServeGemini has been called
    closed     \* whether conn.Close has run

vars == <<pc, request, rerr, lastIn, stream, pos, line, header, w, wire, calls, invoked, closed>>
connVars == <<stream, pos, line, header, w, wire, calls, invoked, closed>>

\* response{conn: conn}
ZeroResponse == [headerWritten |-> FALSE, err |-> "nil"]

\* readHeader has not returned
NoHeader == [done |-> FALSE, err |-> "nil", bytes |-> <<>>, next |-> 0]

(***************************************************************************)
(* Request targets.  A target is a scheme, an optional authority "//h", a  *)
(* path p without ';' and a list of ';' segments.  Each segment carries    *)
(* what it denotes (key, string value, integer value), written down by     *)
(* hand from its text and not computed by the model of the code.           *)
(***************************************************************************)
Seg(text, key, sval, ival, okint) ==
    [text |-> text, key |-> key, sval |-> sval, ival |-> ival, okint |-> okint]

Segments == {
    Seg(<<"s","i","z","e","=","2","3">>, "size", <<"2","3">>, 23, TRUE),
    Seg(<<"s","i","z","e","=","5">>, "size", <<"5">>, 5, TRUE),
    Seg(<<"s","i","z","e","=","-","5">>, "size", <<"-","5">>, 0 - 5, TRUE),
    Seg(<<"s","i","z","e","=","x">>, "size", <<"x">>, 0, FALSE),
    Seg(<<"m","i","m","e","=","t","/","p">>, "mime", <<"t","/","p">>, 0, FALSE),
    Seg(<<"t","o","k","e","n","=","k">>, "token", <<"k">>, 0, FALSE),
    Seg(<<"x","=","1">>, "other", <<"1">>, 0, FALSE),
    Seg(<<"m","i","m","e","=","a","=","b">>, "other", <<>>, 0, FALSE),
    Seg(<<"s","i","z","e">>, "other", <<>>, 0, FALSE) }

SegSeqs(n) == UNION {[1..k -> Segments] : k \in 0..n}

Target(scheme, auth, p, segs) ==
    [none |-> FALSE, scheme |-> scheme, auth |-> auth, p |-> p, segs |-> segs]
NoInput == [none |-> TRUE, scheme |-> <<>>, auth |-> FALSE, p |-> <<>>, segs |-> <<>>]

Schemes == {SchemaGemini, SchemaTitan, <<"x">>, <<>>}
Paths == {<<>>, <<"/">>, <<"/","d","a">>}

ResetInputs ==
    {Target(s, a, p, g) : s \in Schemes, a \in BOOLEAN, p \in Paths, g \in SegSeqs(MaxSegs)}

\* the ';' segments as they follow the path in the URL text
RECURSIVE SegText(_)
SegText(segs) ==
    IF segs = <<>> THEN <<>> ELSE <<";">> \o Head(segs).text \o SegText(Tail(segs))

\* the text of a target
RawUrl(in) ==
    in.scheme \o (IF in.scheme # <<>> THEN <<":">> ELSE <<>>)
    \o (IF in.auth THEN <<"/","/","h">> ELSE <<>>)
    \o in.p \o SegText(in.segs)

\* a Request a caller may hand to Reset: a new one, or one that an earlier
\* Reset filled with titan values
UsedRequest ==
    Reset(ZeroRequest,
          SchemaTitan \o <<":","/","/","h","/","o",";","t","o","k","e","n","=","z",
                           ";","m","i","m","e","=","y",";","s","i","z","e","=","7">>).req
PriorRequests == {ZeroRequest, UsedRequest}

(***************************************************************************)
(* gemini.go: NewRequestWithContext.                                       *)
(***************************************************************************)
ErrNilContext == [kind |-> "gemini: nil Context", val |-> <<>>]
ErrUrlParse(url) == [kind |-> "parse", val |-> url]
ErrUnknownSize == [kind |-> "can't handle unknown size titan payloads", val |-> <<>>]

\* the body readers whose Len() clientRequest uses
SizedReaders == {"*bytes.Buffer", "*bytes.Reader", "*strings.Reader"}

\* a body argument: its dynamic type ("nil" for a nil io.Reader) and the
\* number of bytes that remain to be read from it
BodyArg(kind, len) == [kind |-> kind, len |-> len]
NilBody == BodyArg("nil", 0)

\* TitanRequest.clientRequest: [titan, err]
clientRequest(t, body) ==
    IF body.kind = "nil" THEN [titan |-> t, err |-> NoErr]
    ELSE IF body.kind \in SizedReaders
    THEN [titan |-> [t EXCEPT !.Size = body.len], err |-> NoErr]
    ELSE [titan |-> t, err |-> ErrUnknownSize]

\* NewRequestWithContext: [req, err]; req is the zero Request where the
\* code returns nil
NewRequestWithContext(ctxNil, url, body) ==
    IF ctxNil THEN [req |-> ZeroRequest, err |-> ErrNilContext]
    ELSE IF ~Parse(url).ok THEN [req |-> ZeroRequest, err |-> ErrUrlParse(url)]
    ELSE IF Parse(url).url.Scheme = SchemaGemini
    THEN [req |-> [ZeroRequest EXCEPT !.URL = Parse(url).url], err |-> NoErr]
    ELSE [req |-> [URL |-> Parse(url).url,
                   Titan |-> clientRequest(ZeroRequest.Titan, body).titan],
          err |-> clientRequest(ZeroRequest.Titan, body).err]

(***************************************************************************)
(* gemini.go: ReadTitanPayload.                                            *)
(***************************************************************************)
Min(a, b) == IF a <= b THEN a ELSE b

\* what the reads of io.ReadFull for n bytes may come to when rest is what
\* the peer still sends: n bytes, or the end of the stream before that, or
\* a transport error after fewer than n bytes
ReadOutcomes(n, rest) ==
    {[got |-> Min(n, Len(rest)),
      err |-> IF Len(rest) >= n THEN "nil"
              ELSE IF rest = <<>> THEN "EOF" ELSE "unexpected EOF"]}
    \cup {[got |-> k, err |-> "ECONNRESET"] : k \in 0..Min(n - 1, Len(rest))}

\* make([]byte, n) filled by io.ReadFull: the bytes read, then zero bytes
ReadFull(n, rest, o) ==
    [panic |-> FALSE,
     buf |-> SubSeq(rest, 1, o.got) \o [i \in 1..(n - o.got) |-> Chr(0)],
     err |-> o.err, got |-> o.got]

\* ReadTitanPayload: make panics when Size is negative; io.ReadFull does
\* not read when the buffer is empty
ReadTitanPayload(req, rest, o) ==
    IF req.Titan.Size < 0
    THEN [panic |-> TRUE, buf |-> <<>>, err |-> "makeslice: len out of range", got |-> 0]
    ELSE ReadFull(req.Titan.Size, rest,
                  IF req.Titan.Size = 0 THEN [got |-> 0, err |-> "nil"] ELSE o)

(***************************************************************************)
(* server.go: the response writer.                                         *)
(***************************************************************************)
\* fmt's %d of a non-negative integer
RECURSIVE Itoa(_)
Itoa(n) == IF n < 10 THEN <<Digits[n + 1]>> ELSE Itoa(n \div 10) \o <<Digits[(n % 10) + 1]>>

\* the status line written with the format "%d %s"
StatusLine_noCRLF(status, msg) == Itoa(status) \o <<" ">> \o msg

\* the bytes of fmt.Fprintf(w.conn, "%d %s\r\n", status, msg)
StatusLine(status, msg) == Itoa(status) \o <<" ">> \o msg \o CRLF

ErrSent == "status has been sent already"
ErrNotWritten == "status message is not written"
ErrStatusIO(e) == "failed to write response status message: " \o e
ErrBodyIO(e) == "failed to write response body: " \o e

\* what conn.Write(data) may do: accept all of data, or fail after having
\* accepted fewer bytes than len(data)
WriteOutcomes(data) ==
    {[n |-> Len(data), err |-> "nil"]}
    \cup {[n |-> k, err |-> "EPIPE"] : k \in 0..(IF data = <<>> THEN 0 ELSE Len(data) - 1)}

\* a call on the response: the response after it, the error and count it
\* returns, whether it wrote to the connection and the bytes that went out
Result(resp, ret, n, io, sent) ==
    [w |-> resp, ret |-> ret, n |-> n, io |-> io, sent |-> sent]

\* WriteStatusMsg without the check of line 116
WriteStatusMsg_noSentCheck(resp, status, msg, out) ==
    LET data == StatusLine(status, msg)
        sent == SubSeq(data, 1, out.n)
    IN  IF out.err # "nil"
        THEN Result([resp EXCEPT !.err = ErrStatusIO(out.err)],
                    ErrStatusIO(out.err), 0, TRUE, sent)
        ELSE Result([resp EXCEPT !.err = "nil", !.headerWritten = TRUE],
                    "nil", 0, TRUE, sent)

\* WriteStatusMsg without the assignment to w.headerWritten of line 124
WriteStatusMsg_noFlag(resp, status, msg, out) ==
    IF resp.headerWritten THEN Result(resp, ErrSent, 0, FALSE, <<>>)
    ELSE LET data == StatusLine(status, msg)
             sent == SubSeq(data, 1, out.n)
         IN  IF out.err # "nil"
             THEN Result([resp EXCEPT !.err = ErrStatusIO(out.err)],
                         ErrStatusIO(out.err), 0, TRUE, sent)
             ELSE Result([resp EXCEPT !.err = "nil"], "nil", 0, TRUE, sent)

WriteStatusMsg(resp, status, msg, out) ==
    IF resp.headerWritten THEN Result(resp, ErrSent, 0, FALSE, <<>>)
    ELSE LET data == StatusLine(status, msg)
             sent == SubSeq(data, 1, out.n)
         IN  IF out.err # "nil"
             THEN Result([resp EXCEPT !.err = ErrStatusIO(out.err)],
                         ErrStatusIO(out.err), 0, TRUE, sent)
             ELSE Result([resp EXCEPT !.err = "nil", !.headerWritten = TRUE],
                         "nil", 0, TRUE, sent)

\* WriteBody without the check of line 129
WriteBody_noStatusCheck(resp, body, out) ==
    IF resp.err # "nil" THEN Result(resp, resp.err, 0, FALSE, <<>>)
    ELSE LET sent == SubSeq(body, 1, out.n) IN
         IF out.err # "nil"
         THEN Result([resp EXCEPT !.err = ErrBodyIO(out.err)],
                     ErrBodyIO(out.err), out.n, TRUE, sent)
         ELSE Result(resp, "nil", out.n, TRUE, sent)

WriteBody(resp, body, out) ==
    IF ~resp.headerWritten THEN Result(resp, ErrNotWritten, 0, FALSE, <<>>)
    ELSE IF resp.err # "nil" THEN Result(resp, resp.err, 0, FALSE, <<>>)
    ELSE LET sent == SubSeq(body, 1, out.n) IN
         IF out.err # "nil"
         THEN Result([resp EXCEPT !.err = ErrBodyIO(out.err)],
                     ErrBodyIO(out.err), out.n, TRUE, sent)
         ELSE Result(resp, "nil", out.n, TRUE, sent)

\* Write, the io.Copy compatible form
Write(resp, body, out) == WriteBody(resp, body, out)

ErrHeaderSent == "header has been sent already"
ErrRequestIO(e) == "failed to write request header: " \o e

\* WriteRequest: the line is the URL as %s formats it, and CRLF
RequestLine(u, omit) == URLString(u, omit) \o CRLF

WriteRequest(resp, u, omit, out) ==
    IF resp.headerWritten THEN Result(resp, ErrHeaderSent, 0, FALSE, <<>>)
    ELSE LET sent == SubSeq(RequestLine(u, omit), 1, out.n) IN
         IF out.err # "nil"
         THEN Result([resp EXCEPT !.err = ErrRequestIO(out.err)],
                     ErrRequestIO(out.err), 0, TRUE, sent)
         ELSE Result([resp EXCEPT !.err = "nil", !.headerWritten = TRUE],
                     "nil", 0, TRUE, sent)

(***************************************************************************)
(* server.go: the worker of one connection.                                *)
(***************************************************************************)
ErrDecode(hdr) == [kind |-> "failed to decode URL", val |-> hdr]
ErrRead(e) == [kind |-> e, val |-> <<>>]

\* getRequest once readHeader has returned the header line
getRequest(hdr) ==
    LET d == QueryUnescape(hdr) IN
    IF ~d.ok THEN [req |-> ZeroRequest, err |-> ErrDecode(hdr)]
    ELSE Reset(ZeroRequest, d.out)

\* handleConnection after getRequest, running the handler on any result
afterGetRequest_ignoresErr(err) == "handler"

\* handleConnection after getRequest: return (and close) on an error,
\* otherwise call the handler
afterGetRequest(err) == IF err # NoErr THEN "closed" ELSE "handler"

\* what the peer sends: a request line and what follows it, or other bytes
WorkerSegSeqs ==
    {g \in SegSeqs(1) : \A i \in 1..Len(g) : g[i].text \in
        {<<"s","i","z","e","=","5">>, <<"s","i","z","e","=","-","5">>,
         <<"s","i","z","e","=","x">>}}
WorkerTargets ==
    {t \in {Target(s, TRUE, p, g) :
                s \in Schemes, p \in {<<>>, <<"/">>}, g \in WorkerSegSeqs} :
        t.scheme = SchemaTitan \/ t.segs = <<>>}
\* what follows the request line: nothing, or for titan an upload payload
Tails == {<<>>, <<"p","\r","\n","a","b","c">>}
TailsOf(t) == IF t.scheme = SchemaTitan THEN Tails ELSE {<<>>}
LongStream == [i \in 1..LongLen |-> "a"]
\* the request line of the end-to-end exchange and the message its handler
\* sends with status 20
E2ELine == SchemaGemini \o <<":","/","/","x","/">>
E2EMsg == <<"t","e","x","t","/","g","e","m","i","n","i">>
OtherStreams ==
    { E2ELine \o CRLF, <<>>, <<"a">>, <<"a","\r">>, <<"a","\n","\r">>, <<"%","\r","\n">>,
      <<"a","\r","\r","\n">>, <<"x",":","%","4","1","\r","\n">>, LongStream }

Statuses == {20, 51}
Msgs == {<<"m">>}
Bodies == {<<"h","i">>}
\* the status and message a handler chooses: the handler of the end-to-end
\* exchange answers its request with 20 text/gemini
StatusesFor(req) == IF req.URL.Host = <<"x">> THEN {20} ELSE Statuses
MsgsFor(req) == IF req.URL.Host = <<"x">> THEN {E2EMsg} ELSE Msgs

Init ==
    /\ pc = "readHeader"
    /\ request = ZeroRequest
    /\ rerr = NoErr
    /\ \/ /\ lastIn \in WorkerTargets
          /\ \E t \in TailsOf(lastIn) : stream = RawUrl(lastIn) \o CRLF \o t
       \/ /\ lastIn = NoInput
          /\ stream \in OtherStreams
    /\ pos = 1 /\ line = <<>> /\ header = NoHeader
    /\ w = ZeroResponse /\ wire = <<>> /\ calls = <<>>
    /\ invoked = FALSE /\ closed = FALSE

\* readHeader returning on an error of conn.Read with the bytes it has
\* accumulated
readHeaderFail_keepsLine(acc, e, next) ==
    [done |-> TRUE, err |-> e, bytes |-> acc, next |-> next]

\* readHeader returning on an error of conn.Read: return []byte{}, err
readHeaderFail(acc, e, next) ==
    [done |-> TRUE, err |-> e, bytes |-> <<>>, next |-> next]

\* conn.Read delivers the next byte with a nil error: one turn of the loop
\* of readHeader, and on the delimiter the rest of getRequest and the
\* dispatch of handleConnection
ReadByte ==
    /\ pc = "readHeader"
    /\ pos <= Len(stream)
    /\ pos' = pos + 1
    /\ line' = Append(line, stream[pos])
    /\ IF HasSuffix(line', CRLF)
       THEN LET hdr == SubSeq(line', 1, Len(line') - Len(CRLF))
                res == getRequest(hdr)
            IN  /\ header' = [done |-> TRUE, err |-> "nil", bytes |-> hdr, next |-> pos']
                /\ request' = res.req
                /\ rerr' = res.err
                /\ pc' = afterGetRequest(res.err)
                /\ invoked' = (pc' = "handler")
                /\ closed' = (pc' = "closed")
       ELSE UNCHANGED <<header, request, rerr, pc, invoked, closed>>
    /\ UNCHANGED <<lastIn, stream, w, wire, calls>>

\* conn.Read delivers the last byte of the stream together with io.EOF, as
\* crypto/tls does when the peer's close_notify follows its data;
\* readHeader looks at the error only and returns
ReadByteEOF ==
    /\ pc = "readHeader"
    /\ pos = Len(stream)
    /\ pos' = pos + 1
    /\ header' = readHeaderFail(line, "EOF", pos')
    /\ rerr' = ErrRead(header'.err)
    /\ pc' = afterGetRequest(rerr')
    /\ invoked' = (pc' = "handler")
    /\ closed' = (pc' = "closed")
    /\ UNCHANGED <<request, lastIn, stream, line, w, wire, calls>>

\* conn.Read delivers no byte and an error: end of stream, or a transport
\* error at any point
ReadErr ==
    /\ pc = "readHeader"
    /\ \E e \in (IF pos > Len(stream) THEN {"EOF"} ELSE {}) \cup {"ECONNRESET"} :
         /\ header' = readHeaderFail(line, e, pos)
         /\ rerr' = ErrRead(header'.err)
    /\ pc' = afterGetRequest(rerr')
    /\ invoked' = (pc' = "handler")
    /\ closed' = (pc' = "closed")
    /\ UNCHANGED <<request, lastIn, stream, pos, line, w, wire, calls>>

Call(op, status, msg, body, res) ==
    [op |-> op, status |-> status, msg |-> msg, body |-> body,
     ret |-> res.ret, n |-> res.n, io |-> res.io, sent |-> res.sent]

Applied(c, res) ==
    /\ w' = res.w
    /\ wire' = wire \o res.sent
    /\ calls' = Append(calls, c)
    /\ UNCHANGED <<pc, request, rerr, lastIn, stream, pos, line, header, invoked, closed>>

\* the handler calls w.WriteStatusMsg
HWriteStatusMsg ==
    /\ pc = "handler" /\ Len(calls) < MaxCalls
    /\ \E status \in StatusesFor(request), msg \in MsgsFor(request) :
         \E out \in WriteOutcomes(StatusLine(status, msg)) :
            LET res == WriteStatusMsg(w, status, msg, out) IN
            Applied(Call("WriteStatusMsg", status, msg, <<>>, res), res)

\* the handler calls w.WriteBody
HWriteBody ==
    /\ pc = "handler" /\ Len(calls) < MaxCalls
    /\ \E body \in Bodies :
         \E out \in WriteOutcomes(body) :
            LET res == WriteBody(w, body, out) IN
            Applied(Call("WriteBody", 0, <<>>, body, res), res)

\* the handler (through io.Copy, as ServeFile does) calls w.Write
HWrite ==
    /\ pc = "handler" /\ Len(calls) < MaxCalls
    /\ \E body \in Bodies :
         \E out \in WriteOutcomes(body) :
            LET res == Write(w, body, out) IN
            Applied(Call("Write", 0, <<>>, body, res), res)

\* the handler of a titan request calls req.ReadTitanPayload; when that
\* panics the worker unwinds, its deferred conn.Close runs and the
\* goroutine ends with the panic
HReadTitanPayload ==
    /\ pc = "handler" /\ Len(calls) < MaxCalls
    /\ request.URL.Scheme = SchemaTitan
    /\ LET rest == SubSeq(stream, pos, Len(stream)) IN
       \E o \in ReadOutcomes(IF request.Titan.Size < 0 THEN 0 ELSE request.Titan.Size, rest) :
          LET res == ReadTitanPayload(request, rest, o) IN
          /\ pos' = pos + res.got
          /\ calls' = Append(calls,
                 Call("ReadTitanPayload", 0, <<>>, res.buf,
                      [ret |-> IF res.panic THEN "panic" ELSE res.err,
                       n |-> res.got, io |-> FALSE, sent |-> <<>>]))
          /\ pc' = IF res.panic THEN "panicked" ELSE pc
          /\ closed' = res.panic
    /\ UNCHANGED <<request, rerr, lastIn, stream, line, header, w, wire, invoked>>

\* the handler panics and conn.Close is not run
HPanic_noClose ==
    /\ pc = "handler"
    /\ pc' = "panicked"
    /\ closed' = FALSE
    /\ UNCHANGED <<request, rerr, lastIn, stream, pos, line, header, w, wire, calls, invoked>>

\* the handler panics (as requireNoError of the example does): the worker
\* unwinds, the deferred conn.Close runs and the goroutine ends
HPanic ==
    /\ pc = "handler"
    /\ pc' = "panicked"
    /\ closed' = TRUE
    /\ UNCHANGED <<request, rerr, lastIn, stream, pos, line, header, w, wire, calls, invoked>>

\* the handler returns and the deferred conn.Close runs
HReturn ==
    /\ pc = "handler"
    /\ pc' = "closed"
    /\ closed' = TRUE
    /\ UNCHANGED <<request, rerr, lastIn, stream, pos, line, header, w, wire, calls, invoked>>

Next == ReadByte \/ ReadByteEOF \/ ReadErr
        \/ HWriteStatusMsg \/ HWriteBody \/ HWrite \/ HReadTitanPayload \/ HPanic \/ HReturn

Spec == Init /\ [][Next]_vars

(***************************************************************************)
(* A worker whose handler is wrapped by TrapPanic (SpecTrap).              *)
(***************************************************************************)
StatusUnspecified == 40
InternalServerError == <<"I","n","t","e","r","n","a","l"," ","S","e","r","v","e","r"," ","E","r","r","o","r">>

\* the deferred function of TrapPanic without the status write of line 159
recovered_noStatus(resp, out) == Result(resp, "nil", 0, FALSE, <<>>)

\* the deferred function of TrapPanic after recover returned the panic
\* value: the status write
recovered(resp, out) == WriteStatusMsg(resp, StatusUnspecified, InternalServerError, out)

\* the request line the worker of SpecTrap receives
TrapLine == SchemaGemini \o <<":","/","/","h","/">>

InitTrap == Init /\ stream = TrapLine \o CRLF

\* next panics: the deferred function of TrapPanic recovers and calls
\* w.WriteStatusMsg, the wrapper returns to handleConnection as a handler
\* that returned, and the deferred conn.Close runs
HTrapPanic ==
    /\ pc = "handler"
    /\ \E out \in WriteOutcomes(StatusLine(StatusUnspecified, InternalServerError)) :
         LET res == recovered(w, out) IN
         /\ w' = res.w
         /\ wire' = wire \o res.sent
         /\ calls' = Append(calls, Call("WriteStatusMsg", StatusUnspecified,
                                        InternalServerError, <<>>, res))
    /\ pc' = "closed"
    /\ closed' = TRUE
    /\ UNCHANGED <<request, rerr, lastIn, stream, pos, line, header, invoked>>

NextTrap == ReadByte \/ HWriteStatusMsg \/ HWriteBody \/ HTrapPanic \/ HReturn

SpecTrap == InitTrap /\ [][NextTrap]_vars

(***************************************************************************)
(* Request.Reset called on a Request.                                      *)
(***************************************************************************)
InitReset ==
    /\ pc = "new"
    /\ request \in PriorRequests
    /\ rerr = NoErr
    /\ lastIn = NoInput
    /\ stream = <<>> /\ pos = 1 /\ line = <<>> /\ header = NoHeader
    /\ w = ZeroResponse /\ wire = <<>> /\ calls = <<>>
    /\ invoked = FALSE /\ closed = FALSE

ResetCall ==
    /\ pc = "new"
    /\ \E in \in ResetInputs :
         LET res == Reset(request, RawUrl(in)) IN
         /\ request' = res.req
         /\ rerr' = res.err
         /\ lastIn' = in
    /\ pc' = "reset"
    /\ UNCHANGED connVars

\* readHeader on a connection that delivers the bytes of s one at a time
\* and then ends
readHeaderOf(s) ==
    IF FirstCRLF(s) = 0
    THEN [done |-> TRUE, err |-> "EOF", bytes |-> <<>>, next |-> Len(s) + 1]
    ELSE [done |-> TRUE, err |-> "nil", bytes |-> SubSeq(s, 1, FirstCRLF(s) - 1),
          next |-> FirstCRLF(s) + 2]

\* the targets whose decoded Request is written back to a connection
SendInputs == {in \in ResetInputs : Len(in.segs) <= 1}

\* a client writes the URL of the decoded Request with WriteRequest on the
\* response of a new connection
SendRequest ==
    /\ pc = "reset" /\ rerr = NoErr /\ lastIn \in SendInputs
    /\ \E omit \in BOOLEAN :
         \E out \in WriteOutcomes(RequestLine(request.URL, omit)) :
            LET res == WriteRequest(w, request.URL, omit, out) IN
            /\ w' = res.w
            /\ wire' = wire \o res.sent
            /\ calls' = Append(calls, Call("WriteRequest", 0, <<>>, <<>>, res))
            /\ pc' = IF res.ret = "nil" THEN "sent" ELSE "failed"
    /\ UNCHANGED <<request, rerr, lastIn, stream, pos, line, header, invoked, closed>>

\* the server at the other end of that connection reads the line and
\* decodes it: getRequest
DecodeSent ==
    /\ pc = "sent"
    /\ stream' = wire
    /\ header' = readHeaderOf(wire)
    /\ pos' = header'.next
    /\ line' = IF header'.err = "nil" THEN SubSeq(wire, 1, pos' - 1) ELSE wire
    /\ LET res == IF header'.err # "nil"
                  THEN [req |-> ZeroRequest, err |-> ErrRead(header'.err)]
                  ELSE getRequest(header'.bytes)
       IN  request' = res.req /\ rerr' = res.err
    /\ pc' = "decoded"
    /\ UNCHANGED <<lastIn, w, wire, calls, invoked, closed>>

NextReset == ResetCall \/ SendRequest \/ DecodeSent

SpecReset == InitReset /\ [][NextReset]_vars

(***************************************************************************)
(* client.go: a caller of NewRequestWithContext, and Client.Fetch.         *)
(***************************************************************************)
\* a URL argument: its text and, written down by hand, what it is: a
\* gemini URL, a titan URL, a URL of another scheme ("other"), a URL
\* without scheme ("none") or a text that is no URL ("bad")
UrlArg(text, what) == [text |-> text, what |-> what]
ClientUrls == {
    UrlArg(SchemaGemini \o <<":","/","/","h",":","1","/">>, "gemini"),
    UrlArg(SchemaGemini \o <<":","/","/","h","/">>, "gemini"),
    UrlArg(SchemaTitan \o <<":","/","/","h",":","1","/","d","a",";","s","i","z","e","=","5">>, "titan"),
    UrlArg(<<"x",":","/","/","h",":","1","/">>, "other"),
    UrlArg(<<"/","/","h",":","1","/">>, "none"),
    UrlArg(<<"/","d","a">>, "none"),
    UrlArg(<<":">>, "bad") }

BodyArgs ==
    {NilBody}
    \cup {BodyArg(k, n) : k \in SizedReaders \cup {"*os.File"}, n \in {0, 2}}

\* the arguments of a call: the context is nil or not, the URL, the body
ClientInput(ctxNil, url, body) ==
    [none |-> FALSE, ctxNil |-> ctxNil, url |-> url, body |-> body]
ClientInputs ==
    {ClientInput(c, u, b) : c \in BOOLEAN, u \in ClientUrls, b \in BodyArgs}

\* what the server sends on the connection
Replies == { <<"2","0"," ","m","\r","\n","h","i">>, <<"2","0"," ","m">>, <<>> }

\* tls.Dial("tcp", host, conf): an address without a port is refused, and
\* otherwise the network decides
DialOutcomes(host) ==
    IF Index(host, ":") = 0 THEN {"missing port in address"}
    ELSE {"nil", "connection refused"}

ErrDial(e) == [kind |-> e, val |-> <<>>]
ErrWrite(e) == [kind |-> e, val |-> <<>>]
ErrClosedConn == "use of closed network connection"

InitClient ==
    /\ pc = "start"
    /\ request = ZeroRequest
    /\ rerr = NoErr
    /\ lastIn \in ClientInputs
    /\ stream = <<>> /\ pos = 1 /\ line = <<>> /\ header = NoHeader
    /\ w = ZeroResponse /\ wire = <<>> /\ calls = <<>>
    /\ invoked = FALSE /\ closed = FALSE

\* a caller calls NewRequestWithContext with the arguments
NewRequestCall ==
    /\ pc = "start"
    /\ LET res == NewRequestWithContext(lastIn.ctxNil, lastIn.url.text, lastIn.body) IN
       /\ request' = res.req
       /\ rerr' = res.err
    /\ pc' = "built"
    /\ UNCHANGED <<lastIn, connVars>>

\* Fetch(url) up to the deferral of conn.Close: NewRequestWithContext with
\* context.Background() and a nil body, then connect
FetchConnect ==
    /\ pc = "start" /\ ~lastIn.ctxNil /\ lastIn.body = NilBody
    /\ LET res == NewRequestWithContext(FALSE, lastIn.url.text, NilBody) IN
       /\ request' = res.req
       /\ IF res.err # NoErr
          THEN rerr' = res.err /\ pc' = "returned" /\ stream' = stream
          ELSE \E d \in DialOutcomes(res.req.URL.Host) :
                  IF d # "nil"
                  THEN rerr' = ErrDial(d) /\ pc' = "returned" /\ stream' = stream
                  ELSE rerr' = NoErr /\ pc' = "write" /\ stream' \in Replies
    /\ UNCHANGED <<lastIn, pos, line, header, w, wire, calls, invoked, closed>>

\* Fetch: r.WriteRequest(req.URL); on an error Fetch returns and the
\* deferred conn.Close runs
FetchWrite ==
    /\ pc = "write"
    /\ \E omit \in BOOLEAN :
         \E out \in WriteOutcomes(RequestLine(request.URL, omit)) :
            LET res == WriteRequest(w, request.URL, omit, out) IN
            /\ w' = res.w
            /\ wire' = wire \o res.sent
            /\ calls' = Append(calls, Call("WriteRequest", 0, <<>>, <<>>, res))
            /\ rerr' = IF res.ret = "nil" THEN NoErr ELSE ErrWrite(res.ret)
            /\ pc' = IF res.ret = "nil" THEN "response" ELSE "returned"
            /\ closed' = (res.ret # "nil")
    /\ UNCHANGED <<request, lastIn, stream, pos, line, header, invoked>>

\* Fetch: getResponse reads the status line with readHeader and returns the
\* Response that holds the connection (or the error of readHeader); Fetch
\* returns it and the deferred conn.Close runs
FetchGetResponse ==
    /\ pc = "response"
    /\ header' \in {readHeaderOf(stream),
                    [done |-> TRUE, err |-> "ECONNRESET", bytes |-> <<>>, next |-> 1]}
    /\ pos' = header'.next
    /\ line' = SubSeq(stream, 1, pos' - 1)
    /\ rerr' = IF header'.err = "nil" THEN NoErr ELSE ErrRead(header'.err)
    /\ pc' = "returned"
    /\ closed' = TRUE
    /\ UNCHANGED <<request, lastIn, stream, w, wire, calls, invoked>>

\* the caller of Fetch has got a Response and reads what is left of the
\* stream as its body
BodyRead ==
    /\ pc = "returned" /\ rerr = NoErr /\ header.done
    /\ Len(calls) < MaxCalls
    /\ calls' = Append(calls,
           Call("Body.Read", 0, <<>>,
                IF closed THEN <<>> ELSE SubSeq(stream, pos, Len(stream)),
                [ret |-> IF closed THEN ErrClosedConn ELSE "nil",
                 n |-> IF closed THEN 0 ELSE Len(stream) - pos + 1,
                 io |-> FALSE, sent |-> <<>>]))
    /\ pos' = IF closed THEN pos ELSE Len(stream) + 1
    /\ UNCHANGED <<pc, request, rerr, lastIn, stream, line, header, w, wire, invoked, closed>>

\* the caller of Fetch closes the Response
BodyClose ==
    /\ pc = "returned" /\ rerr = NoErr /\ header.done
    /\ pc' = "done"
    /\ closed' = TRUE
    /\ UNCHANGED <<request, rerr, lastIn, stream, pos, line, header, w, wire, calls, invoked>>

NextClient ==
    NewRequestCall \/ FetchConnect \/ FetchWrite \/ FetchGetResponse
    \/ BodyRead \/ BodyClose

SpecClient == InitClient /\ [][NextClient]_vars

(***************************************************************************)
(* server.go: serve, the accept loop, and its workers.  In SpecServe every *)
(* variable of a connection is a function of the connections 1..MaxConns,  *)
(* and pc[0] is the position of the accept loop.  The handler is the "/"   *)
(* branch of the example: WriteStatusMsg, then WriteBody, and a panic when *)
(* either fails.  serve is given the handler as it is; a panic that leaves *)
(* the goroutine of a worker ends the process.                             *)
(***************************************************************************)
Conns == 1..MaxConns

\* what listener.Accept returned: a connection, or an error
Accepted(i) == [conn |-> i, err |-> "nil"]
AcceptFailed(e) == [conn |-> 0, err |-> e]
AcceptErrors == {"EMFILE"}

\* what a peer sends: a request line, a line that does not decode, or the
\* start of a line after which the peer keeps the connection open
ServeStreams ==
    { SchemaGemini \o <<":","/","/","h","/","\r","\n">>, <<"%","\r","\n">>, <<"a">> }

\* the response that the worker of connection i writes to, made by
\* handleConnection for its connection; here one response for all workers
ownResponse_shared(i) == 1

\* the response that the worker of connection i writes to, made by
\* handleConnection for its connection
ownResponse(i) == i

InitServe ==
    /\ pc = [i \in 0..MaxConns |-> IF i = 0 THEN "listen" ELSE "waiting"]
    /\ request = [i \in Conns |-> ZeroRequest]
    /\ rerr = [i \in Conns |-> NoErr]
    /\ lastIn = [i \in Conns |-> NoInput]
    /\ stream \in [Conns -> ServeStreams]
    /\ pos = [i \in Conns |-> 1]
    /\ line = [i \in Conns |-> <<>>]
    /\ header = [i \in Conns |-> NoHeader]
    /\ w = [i \in Conns |-> ZeroResponse]
    /\ wire = [i \in Conns |-> <<>>]
    /\ calls = [i \in 0..MaxConns |-> <<>>]
    /\ invoked = [i \in Conns |-> FALSE]
    /\ closed = [i \in Conns |-> FALSE]

\* the process runs and serve is in its loop: no panic has left a goroutine
Running == pc[0] = "accept"

\* ListenAndServe: listen fails (certificates, address) and ListenAndServe
\* returns the error, or it succeeds and serve is called
Listen ==
    /\ pc[0] = "listen"
    /\ \E ok \in BOOLEAN : pc' = [pc EXCEPT ![0] = IF ok THEN "accept" ELSE "returned"]
    /\ UNCHANGED <<request, rerr, lastIn, stream, pos, line, header, w, wire, calls,
                   invoked, closed>>

\* serve after a failed Accept, returning the error to ListenAndServe
afterAcceptError_returns == "returned"

\* serve after a failed Accept: continue
afterAcceptError == "accept"

\* serve: listener.Accept returns an error; calls[0] holds conn, err of the
\* loop, what the last Accept returned
ServeAcceptError ==
    /\ Running
    /\ \E e \in AcceptErrors : calls' = [calls EXCEPT ![0] = <<AcceptFailed(e)>>]
    /\ pc' = [pc EXCEPT ![0] = afterAcceptError]
    /\ UNCHANGED <<request, rerr, lastIn, stream, pos, line, header, w, wire, invoked, closed>>

\* serve: listener.Accept returns the connection that has waited longest
\* and the loop starts its worker
ServeAccept ==
    /\ Running
    /\ \E i \in Conns :
         /\ pc[i] = "waiting"
         /\ \A j \in Conns : pc[j] = "waiting" => i <= j
         /\ pc' = [pc EXCEPT ![i] = "readHeader"]
         /\ calls' = [calls EXCEPT ![0] = <<Accepted(i)>>]
    /\ UNCHANGED <<request, rerr, lastIn, stream, pos, line, header, w, wire,
                   invoked, closed>>

\* the worker of connection i has read a line: getRequest and the dispatch
\* of handleConnection.  Without a CRLF in the stream the worker stays in
\* conn.Read
ServeGetRequest(i) ==
    /\ Running /\ pc[i] = "readHeader"
    /\ FirstCRLF(stream[i]) # 0
    /\ header' = [header EXCEPT ![i] = readHeaderOf(stream[i])]
    /\ pos' = [pos EXCEPT ![i] = header'[i].next]
    /\ line' = [line EXCEPT ![i] = SubSeq(stream[i], 1, pos'[i] - 1)]
    /\ request' = [request EXCEPT ![i] = getRequest(header'[i].bytes).req]
    /\ rerr' = [rerr EXCEPT ![i] = getRequest(header'[i].bytes).err]
    /\ pc' = [pc EXCEPT ![i] = afterGetRequest(rerr'[i])]
    /\ invoked' = [invoked EXCEPT ![i] = (pc'[i] = "handler")]
    /\ closed' = [closed EXCEPT ![i] = (pc'[i] = "closed")]
    /\ UNCHANGED <<lastIn, stream, w, wire, calls>>

\* a call of the handler of connection i on its response, with the outcome
\* of the connection write
ServeCall(op, status, msg, body, out, res) ==
    [op |-> op, status |-> status, msg |-> msg, body |-> body, out |-> out,
     ret |-> res.ret, sent |-> res.sent]

ServeApplied(i, c, res) ==
    /\ w' = [w EXCEPT ![ownResponse(i)] = res.w]
    /\ wire' = [wire EXCEPT ![ownResponse(i)] = @ \o res.sent]
    /\ calls' = [calls EXCEPT ![i] = Append(@, c)]
    /\ UNCHANGED <<pc, request, rerr, lastIn, stream, pos, line, header, invoked, closed>>

\* the handler of connection i calls w.WriteStatusMsg(20, "m")
ServeStatus(i) ==
    /\ Running /\ pc[i] = "handler" /\ calls[i] = <<>>
    /\ \E out \in WriteOutcomes(StatusLine(20, <<"m">>)) :
         LET res == WriteStatusMsg(w[ownResponse(i)], 20, <<"m">>, out) IN
         ServeApplied(i, ServeCall("WriteStatusMsg", 20, <<"m">>, <<>>, out, res), res)

\* the handler of connection i calls w.WriteBody("hi")
ServeBody(i) ==
    /\ Running /\ pc[i] = "handler"
    /\ Len(calls[i]) = 1 /\ calls[i][1].ret = "nil"
    /\ \E out \in WriteOutcomes(<<"h","i">>) :
         LET res == WriteBody(w[ownResponse(i)], <<"h","i">>, out) IN
         ServeApplied(i, ServeCall("WriteBody", 0, <<>>, <<"h","i">>, out, res), res)

\* the handler of connection i returns and the deferred conn.Close runs
ServeReturn(i) ==
    /\ Running /\ pc[i] = "handler"
    /\ Len(calls[i]) = 2 /\ calls[i][2].ret = "nil"
    /\ pc' = [pc EXCEPT ![i] = "closed"]
    /\ closed' = [closed EXCEPT ![i] = TRUE]
    /\ UNCHANGED <<request, rerr, lastIn, stream, pos, line, header, w, wire, calls, invoked>>

\* the handler of connection i panics on the error of its last call
\* (requireNoError): the deferred conn.Close runs, and as nothing recovers
\* the panic the process ends, and with it the accept loop and every worker
ServePanic(i) ==
    /\ Running /\ pc[i] = "handler"
    /\ calls[i] # <<>> /\ calls[i][Len(calls[i])].ret # "nil"
    /\ pc' = [pc EXCEPT ![i] = "panicked", ![0] = "exited"]
    /\ closed' = [closed EXCEPT ![i] = TRUE]
    /\ UNCHANGED <<request, rerr, lastIn, stream, pos, line, header, w, wire, calls, invoked>>

NextServe ==
    \/ Listen
    \/ ServeAcceptError
    \/ ServeAccept
    \/ \E i \in Conns : ServeGetRequest(i)
    \/ \E i \in Conns : ServeStatus(i)
    \/ \E i \in Conns : ServeBody(i)
    \/ \E i \in Conns : ServeReturn(i)
    \/ \E i \in Conns : ServePanic(i)

SpecServe == InitServe /\ [][NextServe]_vars

(***************************************************************************)
(* Properties of Request.Reset (SpecReset).                                *)
(***************************************************************************)
\* the segments of the last target that are key=value for the given key
KeyIdx(key) == {i \in 1..Len(lastIn.segs) : lastIn.segs[i].key = key}

\* Reset was called on a titan URL whose path is "<p>;seg1;...;segN", N >= 1
TitanParamCase ==
    /\ pc = "reset"
    /\ lastIn.scheme = SchemaTitan
    /\ lastIn.p # <<>>
    /\ Len(lastIn.segs) >= 1

\* C8 as stated: on a titan URL with path "<p>;seg1;...;segN" Reset succeeds
\* with Path = <p>, every key=value segment with key token, mime or size
\* sets its field to its value, and a field without a segment is default.
C8_Original ==
    TitanParamCase =>
        /\ rerr = NoErr
        /\ request.URL.Path = lastIn.p
        /\ \A i \in KeyIdx("token") : request.Titan.Token = lastIn.segs[i].sval
        /\ \A i \in KeyIdx("mime") : request.Titan.Mime = lastIn.segs[i].sval
        /\ \A i \in KeyIdx("size") :
               lastIn.segs[i].okint /\ request.Titan.Size = lastIn.segs[i].ival
        /\ KeyIdx("token") = {} => request.Titan.Token = <<>>
        /\ KeyIdx("mime") = {} => request.Titan.Mime = <<>>
        /\ KeyIdx("size") = {} => request.Titan.Size = 0

\* C8 amended: on a titan URL with path "<p>;seg1;...;segN", N >= 1, in
\* which every size segment's value is a decimal integer, Reset succeeds
\* with Path = <p>, each of token, mime and size holds the value of the LAST
\* key=value segment with that key, and a field without a segment is default.
C8_TitanParams ==
    (TitanParamCase /\ \A i \in KeyIdx("size") : lastIn.segs[i].okint) =>
        /\ rerr = NoErr
        /\ request.URL.Path = lastIn.p
        /\ request.Titan.Token =
             IF KeyIdx("token") = {} THEN <<>>
             ELSE lastIn.segs[SetMax(KeyIdx("token"))].sval
        /\ request.Titan.Mime =
             IF KeyIdx("mime") = {} THEN <<>>
             ELSE lastIn.segs[SetMax(KeyIdx("mime"))].sval
        /\ request.Titan.Size =
             IF KeyIdx("size") = {} THEN 0
             ELSE lastIn.segs[SetMax(KeyIdx("size"))].ival

\* the test of request_test.go: path /da, mime and size given, token absent
C8_Witness ==
    /\ TitanParamCase
    /\ lastIn.p = <<"/","d","a">>
    /\ Len(lastIn.segs) = 2
    /\ lastIn.segs[1].key = "mime" /\ lastIn.segs[2].key = "size"
    /\ rerr = NoErr
    /\ request.URL.Path = <<"/","d","a">>
    /\ request.Titan.Mime = <<"t","/","p">>
    /\ request.Titan.Size = 23
    /\ request.Titan.Token = <<>>

\* the path of the last target as a URL: what follows the authority from
\* its first '/' on; a target without authority and without a leading '/'
\* is opaque and has no path
ParsedPath ==
    LET t == lastIn.p \o SegText(lastIn.segs)
        i == Index(t, "/")
    IN  IF i = 0 \/ (~lastIn.auth /\ i # 1) THEN <<>> ELSE SubSeq(t, i, Len(t))

\* C10: after a successful Reset of a gemini request URL.Path is not empty:
\* an empty path has become "/" and any other path is unchanged.
C10_GeminiPath ==
    (pc = "reset" /\ lastIn.scheme = SchemaGemini /\ rerr = NoErr) =>
        /\ request.URL.Path # <<>>
        /\ request.URL.Path = IF ParsedPath = <<>> THEN <<"/">> ELSE ParsedPath

\* gemini://h was reset and its path is "/"
C10_Witness ==
    /\ pc = "reset" /\ rerr = NoErr
    /\ lastIn = Target(SchemaGemini, TRUE, <<>>, <<>>)
    /\ request.URL.Host = <<"h">>
    /\ request.URL.Path = <<"/">>

\* the value that the segments of the last target give to a key: that of
\* the last segment with the key, and the default without such a segment
LastSval(key) ==
    IF KeyIdx(key) = {} THEN <<>> ELSE lastIn.segs[SetMax(KeyIdx(key))].sval
LastIval(key) ==
    IF KeyIdx(key) = {} THEN 0 ELSE lastIn.segs[SetMax(KeyIdx(key))].ival

\* C17: after a successful Reset, of a new Request or of one that held
\* titan values, the scheme is that of the target; for titan the token,
\* mime and size are those of the ';' segments that follow a path, which
\* are no longer in the path; for every other scheme, gemini or not, they are "", "" and 0 and
\* the ';' segments are still in the path.
C17_UploadIffTitan ==
    (pc = "reset" /\ rerr = NoErr) =>
        /\ request.URL.Scheme = lastIn.scheme
        /\ lastIn.scheme = SchemaTitan => ";" \notin Range(request.URL.Path)
        /\ (lastIn.scheme = SchemaTitan /\ lastIn.p # <<>>) =>
              /\ request.Titan = [Token |-> LastSval("token"), Mime |-> LastSval("mime"),
                                  Size |-> LastIval("size")]
              /\ request.URL.Path = lastIn.p
        /\ lastIn.scheme # SchemaTitan =>
              /\ request.Titan = [Token |-> <<>>, Mime |-> <<>>, Size |-> 0]
              /\ request.URL.Path = IF ParsedPath = <<>> THEN <<"/">> ELSE ParsedPath

\* a Request that held titan values was reset to x://h/da;token=k;size=5:
\* the scheme is kept, the parameters are the defaults and the segments
\* are in the path
C17_Witness ==
    /\ pc = "reset" /\ rerr = NoErr
    /\ lastIn.scheme = <<"x">> /\ lastIn.auth /\ lastIn.p = <<"/","d","a">>
    /\ Len(lastIn.segs) = 2
    /\ lastIn.segs[1].key = "token" /\ lastIn.segs[2].text = <<"s","i","z","e","=","5">>
    /\ request.URL.Scheme = <<"x">>
    /\ request.Titan = [Token |-> <<>>, Mime |-> <<>>, Size |-> 0]
    /\ request.URL.Path = <<"/","d","a",";","t","o","k","e","n","=","k",";","s","i","z","e","=","5">>

\* a segment that is key=value with key token, mime or size
IsParam(seg) == seg.key # "other"

\* the last target without the segments that are no such parameter
ParamsOnly == [lastIn EXCEPT !.segs = SelectSeq(lastIn.segs, IsParam)]

\* the size segments of the last target whose value is no integer
BadSizes == {i \in KeyIdx("size") : ~lastIn.segs[i].okint}

\* C18: in the decode of a titan URL with path "<p>;seg1;...;segN" the
\* segments without exactly one '=' and those with another key than token,
\* mime and size change nothing, wherever they stand: the result is that
\* of the URL without them (and success with the defaults when no other
\* segment is left); and the decode fails exactly when a size segment has
\* a value that is no integer, with the error that names the first such
\* value, whatever the other segments are.
C18_SkippedAndBadSize ==
    TitanParamCase =>
        /\ IF ParamsOnly.segs = <<>>
           THEN /\ rerr = NoErr
                /\ request.Titan = [Token |-> <<>>, Mime |-> <<>>, Size |-> 0]
                /\ request.URL.Path = lastIn.p
           ELSE /\ rerr = Reset(ZeroRequest, RawUrl(ParamsOnly)).err
                /\ request = Reset(ZeroRequest, RawUrl(ParamsOnly)).req
        /\ rerr # NoErr <=> BadSizes # {}
        /\ BadSizes # {} => rerr = ErrTitanSize(lastIn.segs[SetMin(BadSizes)].sval)

\* titan://h/da;mime=a=b;size=x: the segment with two '=' was passed over
\* and the decode failed on the size x
C18_Witness ==
    /\ TitanParamCase
    /\ lastIn.auth /\ lastIn.p = <<"/","d","a">>
    /\ Len(lastIn.segs) = 2
    /\ lastIn.segs[1].text = <<"m","i","m","e","=","a","=","b">>
    /\ lastIn.segs[2].text = <<"s","i","z","e","=","x">>
    /\ rerr = ErrTitanSize(<<"x">>)
    /\ request.Titan.Mime = <<>>

(***************************************************************************)
(* Properties of the response writer (Spec).                               *)
(***************************************************************************)
\* this step is a call of the handler on the response; LastCall is the call
IsCall == Len(calls') = Len(calls) + 1
LastCall == calls'[Len(calls')]

IsStatusCall(c) == c.op = "WriteStatusMsg"
IsBodyCall(c) == c.op \in {"WriteBody", "Write"}

\* the status line "<code> <message>\r\n" of a call with a two-digit code
LineOf(c) ==
    <<Digits[(c.status \div 10) + 1], Digits[(c.status % 10) + 1], " ">>
    \o c.msg \o <<"\r","\n">>

\* the calls of WriteStatusMsg that succeeded
OkStatusCalls == {i \in 1..Len(calls) : IsStatusCall(calls[i]) /\ calls[i].ret = "nil"}

\* the bodies of the calls of WriteBody and Write that succeeded, in order
RECURSIVE OkBodies(_)
OkBodies(cs) ==
    IF cs = <<>> THEN <<>>
    ELSE (IF IsBodyCall(Head(cs)) /\ Head(cs).ret = "nil" THEN Head(cs).body ELSE <<>>)
         \o OkBodies(Tail(cs))

\* C1: at most one WriteStatusMsg succeeds, it has written exactly its line
\* "<code> <message>\r\n", and a WriteStatusMsg called once the status has
\* been sent returns "status has been sent already", does not write to the
\* connection and leaves headerWritten, err and the wire as they were.
C1_StatusOnce ==
    /\ [](/\ Cardinality(OkStatusCalls) <= 1
          /\ w.headerWritten <=> OkStatusCalls # {}
          /\ \A i \in OkStatusCalls : calls[i].sent = LineOf(calls[i]))
    /\ [][(IsCall /\ IsStatusCall(LastCall) /\ w.headerWritten) =>
            /\ LastCall.ret = ErrSent
            /\ ~LastCall.io
            /\ w' = w
            /\ wire' = wire]_vars

\* a second WriteStatusMsg was refused and the wire holds the first line only
C1_Witness ==
    /\ Len(calls) = 2
    /\ IsStatusCall(calls[1]) /\ calls[1].ret = "nil" /\ calls[1].status = 20
    /\ IsStatusCall(calls[2]) /\ calls[2].ret = ErrSent /\ calls[2].status = 51
    /\ wire = <<"2","0"," ","m","\r","\n">>

\* C2 as stated: once a write has failed and its error is recorded, every
\* later WriteStatusMsg and WriteBody does no I/O and returns that error.
C2_StickyError ==
    [][(IsCall /\ w.err # "nil") =>
          /\ ~LastCall.io
          /\ LastCall.ret = w.err]_vars

\* C3: WriteBody or Write before a WriteStatusMsg has succeeded returns
\* "status message is not written" and count 0, does not write to the
\* connection and leaves headerWritten, err and the wire as they were.
C3_BodyBeforeStatus ==
    [][(IsCall /\ IsBodyCall(LastCall) /\ ~w.headerWritten) =>
          /\ LastCall.ret = ErrNotWritten
          /\ LastCall.n = 0
          /\ ~LastCall.io
          /\ w' = w
          /\ wire' = wire]_vars

\* a WriteBody was refused, and the WriteStatusMsg after it wrote its line
\* as a first call
C3_Witness ==
    /\ Len(calls) = 2
    /\ calls[1].op = "WriteBody" /\ calls[1].ret = ErrNotWritten /\ calls[1].n = 0
    /\ IsStatusCall(calls[2]) /\ calls[2].ret = "nil"
    /\ w.headerWritten
    /\ wire = <<"2","0"," ","m","\r","\n">>

\* the wire is empty, or one status line and the successful bodies
WireIsStatusThenBodies ==
    \/ wire = <<>>
    \/ \E i \in OkStatusCalls : wire = LineOf(calls[i]) \o OkBodies(calls)

\* C4 as stated: in every reachable state the wire is empty or exactly one
\* status line followed by the bytes of the successful WriteBody calls, and
\* headerWritten never goes from true to false.
C4_Original ==
    /\ []WireIsStatusThenBodies
    /\ [][w.headerWritten => w'.headerWritten]_vars

\* C4 amended: no body byte goes out before a WriteStatusMsg has succeeded,
\* no status byte goes out after one has succeeded, headerWritten never goes
\* from true to false, and as long as no write to the connection has failed
\* the wire is empty or exactly one status line followed by the bytes of
\* the successful WriteBody calls in call order.
C4_WireOrder ==
    /\ [](/\ \A i \in 1..Len(calls) :
                (IsBodyCall(calls[i]) /\ calls[i].io) =>
                    \E j \in OkStatusCalls : j < i
          /\ \A i \in 1..Len(calls) :
                (IsStatusCall(calls[i]) /\ calls[i].io) =>
                    ~\E j \in OkStatusCalls : j < i
          /\ (\A i \in 1..Len(calls) :
                calls[i].io => calls[i].ret = "nil") => WireIsStatusThenBodies)
    /\ [][w.headerWritten => w'.headerWritten]_vars

\* a refused WriteBody, then the status line, then a body, are on the wire
\* as the status line and the body
C4_Witness ==
    /\ Len(calls) = 3
    /\ IsBodyCall(calls[1]) /\ calls[1].ret = ErrNotWritten
    /\ IsStatusCall(calls[2]) /\ calls[2].ret = "nil" /\ calls[2].status = 51
    /\ IsBodyCall(calls[3]) /\ calls[3].ret = "nil"
    /\ wire = <<"5","1"," ","m","\r","\n","h","i">>

(***************************************************************************)
(* Properties of readHeader and of the worker (Spec).                      *)
(***************************************************************************)
\* C5 as stated: readHeader never accumulates more than 1024 bytes, and once
\* 1024 bytes without a CRLF have been read it has failed with the
\* line-too-long error.
C5_LineTooLong ==
    /\ Len(line) <= 1024
    /\ (pos > 1024 /\ FirstCRLF(SubSeq(stream, 1, 1024)) = 0) =>
          (header.done /\ header.err = "line too long" /\ header.bytes = <<>>)

\* C6 as stated: when the first CRLF of the stream comes after fewer than
\* 1024 bytes and Read has delivered the bytes up to and including it,
\* readHeader has returned exactly the bytes before the CRLF and has
\* consumed exactly those bytes and the delimiter.
C6_ReadsLine ==
    LET k == FirstCRLF(stream) IN
    (k # 0 /\ k <= 1024 /\ pos >= k + 2) =>
        /\ header.done /\ header.err = "nil"
        /\ header.bytes = SubSeq(stream, 1, k - 1)
        /\ header.next = k + 2

\* C7: when the worker fails before a Request is decoded (read error,
\* percent-decoding, URI parse, missing scheme, titan parameters, titan
\* size) the handler is not invoked, nothing is written and the connection
\* is closed.
C7_SilentClose ==
    rerr # NoErr =>
        /\ pc = "closed" /\ closed
        /\ ~invoked
        /\ calls = <<>>
        /\ wire = <<>>

\* the line titan://h/;size=x was read, failed on its size and the
\* connection is closed with nothing written
C7_Witness ==
    /\ lastIn.scheme = SchemaTitan /\ lastIn.p = <<"/">>
    /\ header.done /\ header.err = "nil"
    /\ rerr = ErrTitanSize(<<"x">>)
    /\ closed /\ ~invoked /\ wire = <<>>

\* C9: a titan request line whose path has no ';' segment fails in Reset
\* with "titan parameters expected" and is not dispatched to the handler.
C9_TitanNoParams ==
    (header.done /\ header.err = "nil"
     /\ lastIn.scheme = SchemaTitan /\ lastIn.segs = <<>>) =>
        /\ rerr = ErrTitanParams
        /\ ~invoked
        /\ pc = "closed"

\* the line titan://h/ was read and refused
C9_Witness ==
    /\ header.done /\ header.err = "nil"
    /\ header.bytes = SchemaTitan \o <<":","/","/","h","/">>
    /\ rerr = ErrTitanParams
    /\ pc = "closed" /\ ~invoked

(***************************************************************************)
(* The end-to-end exchange of one connection (Spec).                       *)
(***************************************************************************)
E2EWire == <<"2","0"," ">> \o E2EMsg \o <<"\r","\n","h","i">>

\* the worker read the line gemini://x/, its handler called
\* WriteStatusMsg(20, "text/gemini"), then WriteBody("hi"), and returned
E2ECase ==
    /\ header.done /\ header.err = "nil" /\ header.bytes = E2ELine
    /\ pc = "closed" /\ invoked
    /\ Len(calls) = 2
    /\ calls[1].op = "WriteStatusMsg" /\ calls[1].status = 20 /\ calls[1].msg = E2EMsg
    /\ calls[2].op = "WriteBody" /\ calls[2].body = <<"h","i">>

\* C11 as stated: in the end-to-end exchange the wire is exactly
\* "20 text/gemini\r\nhi", status line first, the connection is closed
\* afterwards and nothing is written after the close.
C11_Original ==
    /\ [](E2ECase =>
            /\ wire = E2EWire
            /\ calls[1].sent = SubSeq(E2EWire, 1, 16) /\ calls[2].sent = <<"h","i">>
            /\ closed)
    /\ [][closed => (wire' = wire /\ closed')]_vars

\* C11 amended: in the end-to-end exchange, when the connection accepted
\* both writes the wire is exactly "20 text/gemini\r\nhi", the status line
\* written by the first call and the body by the second; when a write
\* failed the wire is a prefix of the status line; in both cases the
\* connection is closed once the handler has returned and nothing is
\* written after the close.
C11_EndToEnd ==
    /\ [](E2ECase =>
            /\ (calls[1].ret = "nil" /\ calls[2].ret = "nil") =>
                  /\ wire = E2EWire
                  /\ calls[1].sent = SubSeq(E2EWire, 1, 16)
                  /\ calls[2].sent = <<"h","i">>
            /\ calls[1].ret # "nil" =>
                  (Len(wire) < 16 /\ wire = SubSeq(E2EWire, 1, Len(wire)))
            /\ (calls[1].ret = "nil" /\ calls[2].ret # "nil") =>
                  (Len(wire) < 18 /\ wire = SubSeq(E2EWire, 1, Len(wire)))
            /\ closed)
    /\ [][closed => (wire' = wire /\ closed')]_vars

\* the exchange ran with both writes accepted
C11_Witness ==
    /\ E2ECase
    /\ calls[1].ret = "nil" /\ calls[2].ret = "nil"
    /\ wire = E2EWire
    /\ closed

(***************************************************************************)
(* The round trip of a request target (SpecReset).                         *)
(***************************************************************************)
\* this step decodes the line that WriteRequest wrote
IsRoundTrip == pc = "sent" /\ pc' = "decoded"

\* C12 as stated: the line that WriteRequest writes for a successfully
\* decoded Request decodes to a Request with the same scheme and path and,
\* for titan, the same token, mime and size.
C12_RoundTrip ==
    [][IsRoundTrip =>
          /\ rerr' = NoErr
          /\ request'.URL.Scheme = request.URL.Scheme
          /\ request'.URL.Path = request.URL.Path
          /\ request.URL.Scheme = SchemaTitan => request'.Titan = request.Titan]_vars

(***************************************************************************)
(* Properties of ReadTitanPayload (Spec).                                  *)
(***************************************************************************)
IsPayloadCall(c) == c.op = "ReadTitanPayload"

\* this step is the first ReadTitanPayload of the handler of a titan request
IsFirstPayload ==
    /\ IsCall /\ IsPayloadCall(LastCall)
    /\ \A i \in 1..Len(calls) : ~IsPayloadCall(calls[i])

\* what the peer sent after the CRLF of the request line
AfterLine == SubSeq(stream, FirstCRLF(stream) + 2, Len(stream))

\* C13 as stated: for a decoded titan request with size n, ReadTitanPayload
\* returns, and when it reports success it returns exactly the n bytes that
\* follow the CRLF of the request line, readHeader having consumed nothing
\* beyond the CRLF; when the stream ends or fails before n bytes, it
\* returns an error.
C13_ReadsPayload ==
    [][IsFirstPayload =>
          /\ header.next = FirstCRLF(stream) + 2 /\ pos = header.next
          /\ LastCall.ret # "panic"
          /\ LastCall.ret = "nil" =>
                /\ Len(LastCall.body) = request.Titan.Size
                /\ LastCall.body = SubSeq(AfterLine, 1, request.Titan.Size)
                /\ pos' = pos + request.Titan.Size
          /\ (Len(AfterLine) < request.Titan.Size \/ LastCall.n < request.Titan.Size)
                => LastCall.ret # "nil"]_vars

\* C16 as stated: after every successful decode of a titan request line
\* Titan.Size is not negative (a size such as -5 is refused), and no
\* ReadTitanPayload runs with a negative size.
C16_SizeNonNegative ==
    /\ (header.done /\ header.err = "nil" /\ rerr = NoErr
        /\ request.URL.Scheme = SchemaTitan) => request.Titan.Size >= 0
    /\ \A i \in 1..Len(calls) : IsPayloadCall(calls[i]) => calls[i].ret # "panic"

(***************************************************************************)
(* The phases of the worker (Spec).                                        *)
(***************************************************************************)
\* the worker has returned, or ended in a panic of the handler
Ended == pc \in {"closed", "panicked"}

\* C19: the worker goes from reading the request line to the handler and
\* from there to its end, or from reading to its end when the line cannot
\* be read or decoded; readHeader returns once, the handler is entered at
\* most once and only with a decoded Request; the connection is closed
\* exactly when the worker has ended, whether by a decode failure, a
\* return of the handler or a panic of the handler; and after the close
\* nothing is read, written or called on the connection.
C19_Phases ==
    /\ [](/\ Ended <=> closed
          /\ pc = "readHeader" => (~header.done /\ ~invoked /\ calls = <<>> /\ wire = <<>>)
          /\ invoked => (header.done /\ header.err = "nil" /\ rerr = NoErr)
          /\ pc = "handler" => invoked
          /\ (Ended /\ ~invoked) => (header.done /\ rerr # NoErr))
    /\ [][/\ pc' # pc =>
               \/ pc = "readHeader" /\ pc' \in {"handler", "closed"}
               \/ pc = "handler" /\ pc' \in {"closed", "panicked"}
          /\ header.done => header' = header
          /\ invoked => invoked'
          /\ closed => (closed' /\ wire' = wire /\ pos' = pos /\ calls' = calls)]_vars

\* the handler wrote a status line and panicked: the connection is closed
C19_Witness ==
    /\ pc = "panicked" /\ closed /\ invoked
    /\ Len(calls) = 1 /\ IsStatusCall(calls[1]) /\ calls[1].ret = "nil"
    /\ wire = <<"2","0"," ","m","\r","\n">>

(***************************************************************************)
(* Concurrent workers (SpecServe).                                         *)
(***************************************************************************)
\* the state of connection i: its Request, its response, its wire and what
\* its worker has read and called
ConnState(i) ==
    <<request[i], rerr[i], w[i], wire[i], calls[i], header[i], pos[i], line[i],
      invoked[i], closed[i]>>
ConnStateNext(i) ==
    <<request'[i], rerr'[i], w'[i], wire'[i], calls'[i], header'[i], pos'[i], line'[i],
      invoked'[i], closed'[i]>>

\* the response and the wire that the calls cs give when made one after the
\* other on a response of their own
RECURSIVE Replay(_)
Replay(cs) ==
    IF cs = <<>> THEN [w |-> ZeroResponse, wire |-> <<>>, rets |-> <<>>]
    ELSE LET prev == Replay(SubSeq(cs, 1, Len(cs) - 1))
             c    == cs[Len(cs)]
             res  == IF c.op = "WriteStatusMsg"
                     THEN WriteStatusMsg(prev.w, c.status, c.msg, c.out)
                     ELSE WriteBody(prev.w, c.body, c.out)
         IN  [w |-> res.w, wire |-> prev.wire \o res.sent, rets |-> Append(prev.rets, res.ret)]

\* connection i is as its worker alone makes it
Alone(i) ==
    /\ w[i] = Replay(calls[i]).w
    /\ wire[i] = Replay(calls[i]).wire
    /\ \A k \in 1..Len(calls[i]) : calls[i][k].ret = Replay(calls[i]).rets[k]
    /\ header[i].done =>
          /\ header[i] = readHeaderOf(stream[i])
          /\ request[i] = getRequest(header[i].bytes).req
          /\ rerr[i] = getRequest(header[i].bytes).err
    /\ ~header[i].done => (request[i] = ZeroRequest /\ calls[i] = <<>>)

\* C20: with several connections, in every interleaving a step changes the
\* Request, the response state and the wire of at most one connection, the
\* one whose worker takes the step; every connection is as its worker
\* alone makes it from its stream and its calls; and while the process
\* runs, the accept loop can accept a waiting connection whatever the
\* workers do, be they in a socket read or in their handler.
C20_Isolation ==
    /\ [](\A i \in Conns : Alone(i))
    /\ []((Running /\ \E i \in Conns : pc[i] = "waiting") => ENABLED ServeAccept)
    /\ [][\A i \in Conns :
            ConnStateNext(i) # ConnState(i) =>
                /\ pc[i] \in {"readHeader", "handler"}
                /\ \A j \in Conns \ {i} : ConnStateNext(j) = ConnState(j) /\ pc'[j] = pc[j]]_vars

\* the worker of connection 1 stays in its socket read, that of connection
\* 2, accepted after it, has served its request and is closed
C20_Witness ==
    /\ pc[1] = "readHeader" /\ stream[1] = <<"a">> /\ wire[1] = <<>>
    /\ pc[2] = "closed" /\ closed[2]
    /\ wire[2] = <<"2","0"," ","m","\r","\n","h","i">>

\* this step is a return of listener.Accept; LastAccept is what it returned
IsAccept == calls'[0] # calls[0]
LastAccept == calls'[0][1]

\* the connections whose worker has been started
Started == {i \in Conns : pc[i] # "waiting"}
StartedNext == {i \in Conns : pc'[i] # "waiting"}

\* C21: once listening has succeeded serve does not return: a failed
\* Accept starts no worker and leaves serve in its loop, a successful
\* Accept starts the worker of the accepted connection and no other, a
\* worker is started by no other step, and serve leaves its loop by no step
\* of its own, whatever Accept returns; only the end of the process by a
\* panic of a worker ends it.
C21_AcceptLoop ==
    /\ [](/\ pc[0] = "returned" => calls[0] = <<>>
          /\ \A i \in Conns : calls[0] = <<Accepted(i)>> => i \in Started)
    /\ [][/\ (IsAccept /\ LastAccept.err # "nil") =>
                (pc'[0] = "accept" /\ StartedNext = Started)
          /\ (IsAccept /\ LastAccept.err = "nil") =>
                (pc'[0] = "accept" /\ StartedNext = Started \cup {LastAccept.conn}
                 /\ LastAccept.conn \notin Started)
          /\ pc[0] = "accept" =>
                (pc'[0] \in {"accept", "exited"}
                 /\ (pc'[0] = "exited" => \E i \in Conns : pc'[i] = "panicked" /\ pc[i] = "handler"))
          /\ StartedNext # Started => IsAccept]_vars

\* connection 1 was accepted and its worker has finished, then Accept
\* failed: serve is in its loop and connection 2 still waits
C21_Witness ==
    /\ pc[0] = "accept"
    /\ calls[0] = <<AcceptFailed("EMFILE")>>
    /\ pc[1] = "closed" /\ wire[1] # <<>> /\ pc[2] = "waiting"

\* this step is the recovery of TrapPanic: the forced status write
IsTrap == IsCall /\ LastCall.status = StatusUnspecified
TrapLineOut == StatusLine(StatusUnspecified, InternalServerError)

\* C22 as stated: after the panic of a wrapped handler the worker has
\* returned and closed the connection, and when no status had been sent the
\* wire carries exactly "40 Internal Server Error\r\n"; when one had been
\* sent the forced write does no I/O.
C22_Original ==
    [][IsTrap =>
         /\ pc' = "closed" /\ closed'
         /\ ~w.headerWritten => wire' = TrapLineOut
         /\ w.headerWritten => (wire' = wire /\ ~LastCall.io /\ LastCall.ret = ErrSent)]_vars

\* C22 amended: the panic of a wrapped handler ends in a worker that
\* returned and closed the connection; when a status had been sent the
\* forced write does no I/O, fails and leaves the wire as it was; when none
\* had been sent the forced write puts "40 Internal Server Error\r\n", or
\* a strict prefix of it when the connection write fails, after the bytes
\* that failed status writes had left, so the wire is exactly that line
\* when nothing was on it and the write succeeds; no status byte follows a
\* status line that was sent.
C22_TrapPanic ==
    [][IsTrap =>
         /\ pc' = "closed" /\ closed' /\ LastCall.op = "WriteStatusMsg"
         /\ w.headerWritten =>
               (wire' = wire /\ ~LastCall.io /\ LastCall.ret = ErrSent /\ w' = w)
         /\ ~w.headerWritten =>
               /\ LastCall.io
               /\ \E k \in 0..Len(TrapLineOut) : wire' = wire \o SubSeq(TrapLineOut, 1, k)
               /\ LastCall.ret = "nil" <=> wire' = wire \o TrapLineOut
               /\ LastCall.ret = "nil" <=> w'.headerWritten
               /\ (LastCall.ret = "nil" /\ wire = <<>>) => wire' = TrapLineOut
               /\ \A i \in 1..Len(calls) : calls[i].io => calls[i].ret # "nil"]_vars

\* the handler panicked before any write: the wire is the forced status line
C22_Witness ==
    /\ pc = "closed" /\ closed /\ invoked
    /\ Len(calls) = 1 /\ calls[1].status = StatusUnspecified /\ calls[1].ret = "nil"
    /\ wire = TrapLineOut

(***************************************************************************)
(* Properties of the client (SpecClient).                                  *)
(***************************************************************************)
\* Fetch has returned a Response
Fetched == pc = "returned" /\ rerr = NoErr /\ header.done

\* C14 as stated: when Fetch has written the request line, read one status
\* line and returned the Response, the connection is open, and it stays
\* open with the rest of the stream readable as the body until the caller
\* closes it.
C14_FetchKeepsOpen ==
    /\ [](Fetched => ~closed)
    /\ [][(Fetched /\ IsCall) =>
            /\ LastCall.ret = "nil"
            /\ LastCall.body = SubSeq(stream, pos, Len(stream))]_vars

\* C15 as stated: NewRequestWithContext for a titan URL succeeds only with
\* a body whose size is known, and then Titan.Size is the number of bytes
\* that remain in the body; a body of unknown length makes it fail; and a
\* request it has built never has Size = -1.
C15_KnownSize ==
    (pc = "built" /\ lastIn.url.what = "titan") =>
        /\ rerr = NoErr =>
              /\ lastIn.body.kind \in SizedReaders
              /\ request.Titan.Size = lastIn.body.len
              /\ request.Titan.Size # 0 - 1
        /\ lastIn.body.kind \notin SizedReaders \cup {"nil"} => rerr # NoErr

\* C23: for every target the constructor rejects it for its scheme exactly
\* when the decoder does, a target without a scheme is rejected by both, and
\* the constructor gives upload handling (a body, a size, the refusal of a
\* body of unknown size) to the titan scheme only.
C23_SameSchemeCheck ==
    (pc = "built" /\ ~lastIn.ctxNil /\ Parse(lastIn.url.text).ok) =>
        /\ Reset(ZeroRequest, lastIn.url.text).err = ErrNoScheme(lastIn.url.text)
              <=> (rerr # NoErr /\ rerr # ErrUnknownSize)
        /\ lastIn.url.what = "none" => rerr # NoErr
        /\ lastIn.url.what # "titan" =>
              (request.Titan = ZeroRequest.Titan /\ rerr # ErrUnknownSize)

\* C24: when conn.Read returns an error before readHeader has seen a CRLF,
\* end of stream or a transport error, readHeader returns that error and
\* an empty result, none of the bytes it had accumulated, however many
\* they are; end of stream is reported only when the stream is used up,
\* and the worker closes without a handler.
C24_ReadError ==
    /\ []((header.done /\ header.err # "nil") =>
            /\ header.bytes = <<>>
            /\ header.err \in {"EOF", "ECONNRESET"}
            /\ header.err = "EOF" => header.next > Len(stream)
            /\ FirstCRLF(line) = 0 /\ line = SubSeq(stream, 1, Len(line))
            /\ rerr = ErrRead(header.err)
            /\ pc = "closed" /\ ~invoked /\ wire = <<>>)
    /\ [][(~header.done /\ header'.done /\ line' = line) =>
            (header'.err # "nil" /\ header'.bytes = <<>>)]_vars

\* two bytes were read and then the stream ended: the result is empty
C24_Witness ==
    /\ header.done /\ header.err = "EOF" /\ header.bytes = <<>>
    /\ line = <<"a","\r">> /\ stream = line
    /\ pc = "closed"

====
